---- MODULE Spec2Model ----
(***************************************************************************)
(* A model of src/run.py (S_Segment-Otsu): the Cytomine job that, for each *)
(* image of a batch, estimates an Otsu threshold on a 1% copy of the       *)
(* raster, builds a binary mask, removes small 8-connected components,     *)
(* dilates and inverts the mask, pads it, extracts polygons, rescales them *)
(* to the source image's coordinates and keeps those above a minimum area. *)
(*                                                                         *)
(* A raster is one of                                                      *)
(*   [w, h, fill]  a raster whose w*h pixels all hold `fill` (any size),   *)
(*   [w, h, px]    a raster given pixel by pixel, px[<<y, x>>] for         *)
(*                 0 <= y < h, 0 <= x < w (row, column, as numpy indexes). *)
(* Every stage is defined on both forms.  Numbers that are floats in the   *)
(* program (resize_ratio, zoom_factor, areas, vertex coordinates) are kept *)
(* exact: a rescaled coordinate is a numerator over the denominator        *)
(* resized_width, a rescaled area a numerator over resized_width^2.        *)
(*                                                                         *)
(* Spec      the whole job: a batch of images, every stage, the failure of *)
(*           a stage.  Images are uniform rasters of realistic size.       *)
(* SpecPixel stages 2..7 (pure functions of the raster, the threshold and  *)
(*           the parameters) applied to every small pixel raster.  The job *)
(*           itself stops such a raster at line 144 (ResizeFails); the     *)
(*           stages are the same operators and actions as in Spec.         *)
(***************************************************************************)
EXTENDS Integers, Sequences, FiniteSets, TLC

\* ---------------------------------------------------------------- bounds
MaxImages == 2      \* images in a batch (Spec)
MaxKernel == 3      \* largest scalar kernel size (threshold_constant)
MaxSide == 3        \* longest side of a pixel raster (SpecPixel)
MaxArea == 6        \* most pixels of a pixel raster (SpecPixel)

\* ------------------------------------------------------ program constants
scale_percent == 1  \* percent of original size, for the Otsu sample
extension == 10     \* border added around the mask before extraction
background == 255   \* mask_to_objects_2d(..., background=255)
DefaultBitDepth == 8
NoBitDepth == 0     \* stands for image.bitDepth is None

Max(a, b) == IF a >= b THEN a ELSE b
Min(a, b) == IF a <= b THEN a ELSE b
Abs(a) == IF a >= 0 THEN a ELSE -a
RECURSIVE Pow2(_)
Pow2(n) == IF n = 0 THEN 1 ELSE 2 * Pow2(n - 1)

\* ---------------------------------------------------------------- rasters
Uniform(r) == "fill" \in DOMAIN r
Coords(w, h) == (0 .. h - 1) \X (0 .. w - 1)
UniformRaster(w, h, v) == [w |-> w, h |-> h, fill |-> v]
PixelRaster(w, h, f) == [w |-> w, h |-> h, px |-> f]
\* the pixels of r (as coordinates) that hold v; only for a pixel raster
PixelsEqual(r, v) == {p \in DOMAIN r.px : r.px[p] = v}

VARIABLES
    images,       \* the batch: a sequence of image instances
    parameters,   \* cj.parameters
    idx,          \* position of the for loop in images (0 before the first)
    pc,           \* the stage the current image is about to run
    img,          \* the raster cv2.imread returned
    threshold,
    thresh_mask,
    kernel,       \* [w, h, on, min_region_size]
    extended_img,
    fg_objects,
    annotations,  \* the AnnotationCollection being filled
    saved,        \* <<i, collection>>: the collection saved for image i
    job_status,   \* "running", "finished" (line 216) or "failed" (exception)
    trace         \* the stages run so far for the current image

vars == <<images, parameters, idx, pc, img, threshold, thresh_mask, kernel,
          extended_img, fg_objects, annotations, saved, job_status, trace>>

None == "None"

\* ------------------------------------------- lines 99-113: working raster
\* resize_ratio = max(width, height) / max_image_size, raised to 1;
\* int(n / resize_ratio) is n itself when the ratio is 1
Resized(n, width, height, max_image_size) ==
    IF Max(width, height) <= max_image_size
    THEN n
    ELSE (n * max_image_size) \div Max(width, height)
resized_width(image) ==
    Resized(image.width, image.width, image.height, parameters.max_image_size)
resized_height(image) ==
    Resized(image.height, image.width, image.height, parameters.max_image_size)
bit_depth(image) == IF image.bitDepth # NoBitDepth THEN image.bitDepth ELSE DefaultBitDepth
\* image.dump(max_size = max(resized_width, resized_height)) then cv2.imread:
\* the raster of the image at the working size
Imread(image) ==
    IF "fill" \in DOMAIN image.content
    THEN UniformRaster(resized_width(image), resized_height(image), image.content.fill)
    ELSE PixelRaster(resized_width(image), resized_height(image), image.content.px)

\* ------------------------------------- lines 138-150: threshold estimation
SampleDim(n) == (n * scale_percent) \div 100
\* cv2.resize(img, dim) raises when dim has a zero side
ResizeFails(r) == SampleDim(r.w) = 0 \/ SampleDim(r.h) = 0
\* INTER_AREA averages the source pixels under each sample: the samples of a
\* uniform raster all hold its value.  (A pixel raster of this model has
\* sides below 100: ResizeFails holds and Resize is not applied to it.)
Resize(r) == UniformRaster(SampleDim(r.w), SampleDim(r.h), r.fill)
\* skimage.filters.threshold_otsu: samples that all equal the first one give
\* that value back
threshold_otsu(pixels) == pixels.fill
EstimatedThreshold(r, offset) == threshold_otsu(Resize(r)) + offset

\* ------------------------------------------------ line 153: the binary mask
MaskValueLE(v, t) == IF v <= t THEN 255 ELSE 0
MaskValue(v, t) == IF v < t THEN 255 ELSE 0
BuildMask(r, t) ==
    IF Uniform(r)
    THEN UniformRaster(r.w, r.h, MaskValue(r.fill, t))
    ELSE PixelRaster(r.w, r.h, [p \in DOMAIN r.px |-> MaskValue(r.px[p], t)])

\* ------------------------------------- lines 156-166: structuring element
\* np.array(threshold_constant): a scalar is given here as <<k>>
NormalizeKernelSize(c) == IF Len(c) # 2 THEN <<c[1], c[1]>> ELSE c
\* cvRound(c * sqrt((r*r - dy*dy) / (r*r))), 0 when r = 0; ties to even
EllipseDx(c, r, dy) ==
    IF r = 0 THEN 0
    ELSE LET N == 4 * c * c * (r * r - dy * dy)
             L(d) == (2 * d - 1) * (2 * d - 1) * r * r
             U(d) == (2 * d + 1) * (2 * d + 1) * r * r
             Even(d) == d % 2 = 0
         IN  CHOOSE d \in 0 .. c :
                /\ d = 0 \/ L(d) < N \/ (L(d) = N /\ Even(d))
                /\ N < U(d) \/ (N = U(d) /\ Even(d))
\* cv2.getStructuringElement(cv2.MORPH_ELLIPSE, (kw, kh)): the cells that are 1
EllipseCells(kw, kh) ==
    IF kw = 1 /\ kh = 1 THEN {<<0, 0>>}
    ELSE LET r == kh \div 2
             c == kw \div 2
         IN  {ij \in (0 .. kh - 1) \X (0 .. kw - 1) :
                LET dy == ij[1] - r
                    dx == EllipseDx(c, r, dy)
                IN  /\ Abs(dy) <= r
                    /\ Max(c - dx, 0) <= ij[2]
                    /\ ij[2] < Min(c + dx + 1, kw)}
GetStructuringElement(ksize) ==
    LET on == EllipseCells(ksize[1], ksize[2])
    IN  [w |-> ksize[1], h |-> ksize[2], on |-> on,
         min_region_size |-> Cardinality(on)]

\* ----------------------------------- lines 168-173: the region size filter
Adjacent(p, q, connectivity) ==
    /\ p # q
    /\ Abs(p[1] - q[1]) <= 1
    /\ Abs(p[2] - q[2]) <= 1
    /\ connectivity = 8 \/ Abs(p[1] - q[1]) + Abs(p[2] - q[2]) = 1
RECURSIVE Flood(_, _, _)
Flood(S, fg, connectivity) ==
    LET T == S \cup {q \in fg : \E p \in S : Adjacent(p, q, connectivity)}
    IN  IF T = S THEN S ELSE Flood(T, fg, connectivity)
\* the first pixel of S in raster-scan order
First(S) ==
    CHOOSE p \in S : \A q \in S :
        p[1] < q[1] \/ (p[1] = q[1] /\ p[2] <= q[2])
\* the components of fg, in the order a raster scan meets them
RECURSIVE Components(_, _)
Components(fg, connectivity) ==
    IF fg = {} THEN <<>>
    ELSE LET c == Flood({First(fg)}, fg, connectivity)
         IN  <<c>> \o Components(fg \ c, connectivity)
\* cv2.connectedComponentsWithStats(mask, connectivity=8): the label image
\* (0 the background, i the i-th component of the non-zero pixels) and
\* stats[1:, -1], the pixel count of each component
ConnectedComponentsWithStats(mask) ==
    IF Uniform(mask)
    THEN IF mask.fill # 0
         THEN [output |-> UniformRaster(mask.w, mask.h, 1), sizes |-> <<mask.w * mask.h>>]
         ELSE [output |-> UniformRaster(mask.w, mask.h, 0), sizes |-> <<>>]
    ELSE LET cs == Components({p \in DOMAIN mask.px : mask.px[p] # 0}, 8)
             label(p) == IF \E i \in 1 .. Len(cs) : p \in cs[i]
                         THEN CHOOSE i \in 1 .. Len(cs) : p \in cs[i]
                         ELSE 0
         IN  [output |-> PixelRaster(mask.w, mask.h, [p \in DOMAIN mask.px |-> label(p)]),
              sizes |-> [i \in 1 .. Len(cs) |-> Cardinality(cs[i])]]
\* mask[output == label] = v
SetWhere(mask, output, label, v) ==
    IF Uniform(mask)
    THEN IF output.fill = label THEN UniformRaster(mask.w, mask.h, v) ELSE mask
    ELSE PixelRaster(mask.w, mask.h,
            [p \in DOMAIN mask.px |-> IF output.px[p] = label THEN v ELSE mask.px[p]])
\* for i, size in enumerate(sizes): if size < min_region_size: mask[output == i + 1] = 0
RECURSIVE FilterLoop(_, _, _, _, _)
FilterLoop(mask, output, sizes, i, min_region_size) ==
    IF i >= Len(sizes) THEN mask
    ELSE FilterLoop(IF sizes[i + 1] < min_region_size
                    THEN SetWhere(mask, output, i + 1, 0)
                    ELSE mask,
                    output, sizes, i + 1, min_region_size)
\* faulty variants: `size <= min_region_size`; a loop that stops at its
\* first removal
RegionSizeFilterLE(mask, min_region_size) ==
    LET cc == ConnectedComponentsWithStats(mask)
    IN  FilterLoop(mask, cc.output, cc.sizes, 0, min_region_size + 1)
RegionSizeFilterFirstOnly(mask, min_region_size) ==
    LET cc == ConnectedComponentsWithStats(mask)
        small == {i \in 1 .. Len(cc.sizes) : cc.sizes[i] < min_region_size}
    IN  IF small = {} THEN mask
        ELSE SetWhere(mask, cc.output, CHOOSE i \in small : \A j \in small : i <= j, 0)
RegionSizeFilter(mask, min_region_size) ==
    LET cc == ConnectedComponentsWithStats(mask)
    IN  FilterLoop(mask, cc.output, cc.sizes, 0, min_region_size)

\* ------------------------------------- lines 176-178: dilation, inversion
MaxOf(S) == CHOOSE v \in S : \A u \in S : u <= v
\* cv2.morphologyEx(mask, cv2.MORPH_DILATE, kernel): the largest value under
\* the kernel anchored at its centre (kw / 2, kh / 2); cells that fall outside
\* the raster do not count.  The centre cell of an ellipse is always 1.
Dilate(mask, k) ==
    IF Uniform(mask) THEN mask
    ELSE LET ay == k.h \div 2
             ax == k.w \div 2
             under(p) == {q \in DOMAIN mask.px : <<q[1] - p[1] + ay, q[2] - p[2] + ax>> \in k.on}
         IN  PixelRaster(mask.w, mask.h,
                [p \in DOMAIN mask.px |-> MaxOf({mask.px[q] : q \in under(p)})])
BitwiseNot(mask) ==
    IF Uniform(mask)
    THEN UniformRaster(mask.w, mask.h, 255 - mask.fill)
    ELSE PixelRaster(mask.w, mask.h, [p \in DOMAIN mask.px |-> 255 - mask.px[p]])

\* ------------------------------------------ lines 183-192: border padding
\* the border value 2 ** bit_depth, saturated to the mask's 8 bits
BorderValue(bits) == Min(Pow2(bits), 255)
\* cv2.copyMakeBorder(mask, extension x 4, BORDER_CONSTANT, value): the mask
\* inside a frame `pad` pixels wide that holds `value`
CopyMakeBorder(mask, pad, value) == [inner |-> mask, pad |-> pad, value |-> value]

\* -------------------------------------------- line 195: polygon extraction
\* the corners of the pixel grid where the outline of the pixel set S turns.
\* Pixel <<y, x>> covers [x, x+1] x [y, y+1]; a corner is <<x, y>>.
Turns(S) ==
    LET corners == UNION {{<<p[2], p[1]>>, <<p[2] + 1, p[1]>>,
                           <<p[2], p[1] + 1>>, <<p[2] + 1, p[1] + 1>>} : p \in S}
        In(y, x) == <<y, x>> \in S
        N(y, x) == IF In(y, x) THEN 1 ELSE 0
    IN  {c \in corners :
            LET x == c[1]
                y == c[2]
                n == N(y - 1, x - 1) + N(y - 1, x) + N(y, x - 1) + N(y, x)
            IN  \/ n \in {1, 3}
                \/ n = 2 /\ In(y - 1, x - 1) = In(y, x)}
Shift(S, d) == {<<v[1] + d[1], v[2] + d[2]>> : v \in S}
Rectangle(x0, y0, x1, y1) == {<<x0, y0>>, <<x1, y0>>, <<x0, y1>>, <<x1, y1>>}
\* sldc.locator.mask_to_objects_2d(extended, background, offset): one polygon
\* (rasterio.features.shapes) per 4-connected region of equal, non-background
\* pixels, its outline on the pixel grid, moved by offset; holes are cut out,
\* so the area is the pixel count
MaskToObjects2d(ext, bg, offset) ==
    LET m == ext.inner
        pad == ext.pad
        frame == IF ext.value = bg THEN {}
                 ELSE {[area |-> (m.w + 2 * pad) * (m.h + 2 * pad) - m.w * m.h,
                        vertices |-> Shift(Rectangle(0, 0, m.w + 2 * pad, m.h + 2 * pad)
                                           \cup Rectangle(pad, pad, pad + m.w, pad + m.h),
                                           offset)]}
        inside ==
            IF Uniform(m)
            THEN IF m.fill = bg THEN {}
                 ELSE {[area |-> m.w * m.h,
                        vertices |-> Shift(Rectangle(pad, pad, pad + m.w, pad + m.h), offset)]}
            ELSE LET values == {m.px[p] : p \in DOMAIN m.px} \ {bg}
                     region(v) == {<<p[1] + pad, p[2] + pad>> : p \in PixelsEqual(m, v)}
                     regions(v) == LET cs == Components(region(v), 4)
                                   IN  {cs[i] : i \in 1 .. Len(cs)}
                 IN  {[area |-> Cardinality(S), vertices |-> Shift(Turns(S), offset)] :
                        S \in UNION {regions(v) : v \in values}}
    IN  frame \cup inside

\* ------------------------------- lines 196-212: rescale and the area filter
RECURSIVE GCD(_, _)
GCD(a, b) == IF b = 0 THEN a ELSE GCD(b, a % b)
\* zoom_factor = image.width / float(resized_width), as a fraction in lowest
\* terms: <<numerator, denominator>>
zoom_factor(image) ==
    LET g == GCD(image.width, resized_width(image))
    IN  <<image.width \div g, resized_width(image) \div g>>
\* [zoom_factor, 0, 0, -zoom_factor, 0, image.height], every entry over the
\* denominator of zoom_factor
transform_matrix(image) ==
    LET z == zoom_factor(image)
    IN  <<z[1], 0, 0, -z[1], 0, image.height * z[2]>>
\* shapely.affinity.affine_transform(geom, [a, b, d, e, xoff, yoff]):
\* x' = a x + b y + xoff, y' = d x + e y + yoff; the area grows by |a e - b d|.
\* Coordinates come out over den, the area over den * den.
affine_transformRowMajor(poly, m, den) ==
    [den |-> den,
     area |-> Abs(m[1] * m[5] - m[2] * m[4]) * poly.area,
     vertices |-> {<<m[1] * v[1] + m[2] * v[2] + m[3],
                     m[4] * v[1] + m[5] * v[2] + m[6]>> : v \in poly.vertices}]
affine_transform(poly, m, den) ==
    [den |-> den,
     area |-> Abs(m[1] * m[4] - m[2] * m[3]) * poly.area,
     vertices |-> {<<m[1] * v[1] + m[2] * v[2] + m[5],
                     m[3] * v[1] + m[4] * v[2] + m[6]>> : v \in poly.vertices}]
\* int((image_area_perc_threshold / 100) * image.width * image.height)
min_area(image) ==
    (parameters.image_area_perc_threshold * image.width * image.height) \div 100
\* upscaled.area <= min_area
TooSmallLT(upscaled, least) == upscaled.area < least * upscaled.den * upscaled.den
TooSmall(upscaled, least) == upscaled.area <= least * upscaled.den * upscaled.den
Annotate(objects, image) ==
    LET up(poly) == affine_transform(poly, transform_matrix(image), zoom_factor(image)[2])
    IN  {[location |-> up(poly), id_image |-> image.id] :
            poly \in {q \in objects : ~TooSmall(up(q), min_area(image))}}

\* ------------------------------------------------------------ control flow
\* the statements of the loop body follow one another in program order
StageAfterSwapped(s) ==
    CASE s = "threshold" -> "mask"
      [] s = "mask" -> "morph"
      [] s = "morph" -> "filter"
      [] s = "filter" -> "pad"
      [] s = "pad" -> "extract"
      [] s = "extract" -> "rescale"
      [] s = "rescale" -> "save"
      [] s = "save" -> "next"
StageAfter(s) ==
    CASE s = "threshold" -> "mask"
      [] s = "mask" -> "filter"
      [] s = "filter" -> "morph"
      [] s = "morph" -> "pad"
      [] s = "pad" -> "extract"
      [] s = "extract" -> "rescale"
      [] s = "rescale" -> "save"
      [] s = "save" -> "next"
Advance(s) == pc = s /\ pc' = StageAfter(s) /\ trace' = Append(trace, s)

\* line 97 and lines 99-113: the loop takes the next image and reads its raster
StepNextImage ==
    /\ pc = "next"
    /\ idx < Len(images)
    /\ idx' = idx + 1
    /\ img' = Imread(images[idx + 1])
    /\ trace' = <<>>
    /\ pc' = "threshold"
    /\ UNCHANGED <<images, parameters, threshold, thresh_mask, kernel, extended_img,
                   fg_objects, annotations, saved, job_status>>

\* lines 138-150; an exception leaves the loop and the `with CytomineJob`
\* block, which marks the job failed
StepThreshold ==
    /\ pc = "threshold"
    /\ IF ResizeFails(img)
       THEN /\ job_status' = "failed"
            /\ pc' = "aborted"
            /\ UNCHANGED <<threshold, trace>>
       ELSE /\ threshold' = EstimatedThreshold(img, parameters.threshold_blocksize)
            /\ Advance("threshold")
            /\ UNCHANGED job_status
    /\ UNCHANGED <<images, parameters, idx, img, thresh_mask, kernel, extended_img,
                   fg_objects, annotations, saved>>

\* lines 153-166
StepMask ==
    /\ Advance("mask")
    /\ thresh_mask' = BuildMask(img, threshold)
    /\ kernel' = GetStructuringElement(NormalizeKernelSize(parameters.threshold_constant))
    /\ UNCHANGED <<images, parameters, idx, img, threshold, extended_img,
                   fg_objects, annotations, saved, job_status>>

\* lines 168-173
StepFilter ==
    /\ Advance("filter")
    /\ thresh_mask' = RegionSizeFilter(thresh_mask, kernel.min_region_size)
    /\ UNCHANGED <<images, parameters, idx, img, threshold, kernel, extended_img,
                   fg_objects, annotations, saved, job_status>>

\* lines 176-178
StepMorph ==
    /\ Advance("morph")
    /\ thresh_mask' = BitwiseNot(Dilate(thresh_mask, kernel))
    /\ UNCHANGED <<images, parameters, idx, img, threshold, kernel, extended_img,
                   fg_objects, annotations, saved, job_status>>

\* lines 183-192
StepPad ==
    /\ Advance("pad")
    /\ extended_img' = CopyMakeBorder(thresh_mask, extension, BorderValue(bit_depth(images[idx])))
    /\ UNCHANGED <<images, parameters, idx, img, threshold, thresh_mask, kernel,
                   fg_objects, annotations, saved, job_status>>

\* line 195
StepExtract ==
    /\ Advance("extract")
    /\ fg_objects' = MaskToObjects2d(extended_img, background, <<-extension, -extension>>)
    /\ UNCHANGED <<images, parameters, idx, img, threshold, thresh_mask, kernel,
                   extended_img, annotations, saved, job_status>>

\* lines 196-212
StepRescale ==
    /\ Advance("rescale")
    /\ annotations' = Annotate(fg_objects, images[idx])
    /\ UNCHANGED <<images, parameters, idx, img, threshold, thresh_mask, kernel,
                   extended_img, fg_objects, saved, job_status>>

\* line 214
StepSave ==
    /\ Advance("save")
    /\ saved' = saved \cup {<<idx, annotations>>}
    /\ UNCHANGED <<images, parameters, idx, img, threshold, thresh_mask, kernel,
                   extended_img, fg_objects, annotations, job_status>>

\* line 216, after the last image
StepFinish ==
    /\ pc = "next"
    /\ idx = Len(images)
    /\ job_status' = "finished"
    /\ pc' = "done"
    /\ UNCHANGED <<images, parameters, idx, img, threshold, thresh_mask, kernel,
                   extended_img, fg_objects, annotations, saved, trace>>

\* ------------------------------------------------------ the whole job: Spec
\* source images: width, height, bitDepth, and the value all their pixels hold
Catalog ==
    {[width |-> 50, height |-> 50, bitDepth |-> NoBitDepth, content |-> [fill |-> 128]],
     [width |-> 100, height |-> 100, bitDepth |-> NoBitDepth, content |-> [fill |-> 128]],
     [width |-> 100, height |-> 100, bitDepth |-> 16, content |-> [fill |-> 7]],
     [width |-> 201, height |-> 400, bitDepth |-> NoBitDepth, content |-> [fill |-> 128]],
     [width |-> 300, height |-> 150, bitDepth |-> 16, content |-> [fill |-> 128]]}
JobParameters ==
    [max_image_size : {200, 400},
     threshold_blocksize : {0, 1},
     threshold_constant : {<<k>> : k \in 1 .. MaxKernel},
     image_area_perc_threshold : {0, 50, 100}]
WithIds(batch) == [i \in DOMAIN batch |-> [id |-> i] @@ batch[i]]
Batches == UNION {[1 .. n -> Catalog] : n \in 1 .. MaxImages}

Init ==
    /\ parameters \in JobParameters
    /\ images \in {WithIds(b) : b \in Batches}
    /\ idx = 0
    /\ pc = "next"
    /\ img = None
    /\ threshold = None
    /\ thresh_mask = None
    /\ kernel = None
    /\ extended_img = None
    /\ fg_objects = None
    /\ annotations = None
    /\ saved = {}
    /\ job_status = "running"
    /\ trace = <<>>

Next ==
    \/ StepNextImage
    \/ StepThreshold
    \/ StepMask
    \/ StepFilter
    \/ StepMorph
    \/ StepPad
    \/ StepExtract
    \/ StepRescale
    \/ StepSave
    \/ StepFinish

Spec == Init /\ [][Next]_vars

\* ------------------------------------- stages 2..7 on pixels: SpecPixel
\* Every raster of at most MaxArea pixels and sides up to MaxSide, read from
\* a source image of sides up to MaxSide + 1, with a threshold below, at and
\* above its intensities: the state after line 150.
Intensities == {100, 200}
Thresholds == {100, 200, 201}
PixelParameters ==
    [max_image_size : {MaxSide},
     threshold_blocksize : {0},
     threshold_constant : {<<k>> : k \in 1 .. MaxKernel} \cup {<<1, 2>>},
     image_area_perc_threshold : {0, 25, 50, 100}]
PixelImages(max_image_size) ==
    UNION {LET rw == Resized(d[1], d[1], d[2], max_image_size)
               rh == Resized(d[2], d[1], d[2], max_image_size)
           IN  IF rw >= 1 /\ rh >= 1 /\ rw * rh <= MaxArea
               THEN {[id |-> 1, width |-> d[1], height |-> d[2], bitDepth |-> NoBitDepth,
                      content |-> [px |-> f]] : f \in [Coords(rw, rh) -> Intensities]}
               ELSE {} : d \in (1 .. MaxSide + 1) \X (1 .. MaxSide + 1)}

InitPixel ==
    /\ parameters \in PixelParameters
    /\ images \in {<<i>> : i \in PixelImages(parameters.max_image_size)}
    /\ idx = 1
    /\ pc = "mask"
    /\ img = Imread(images[1])
    /\ threshold \in Thresholds
    /\ thresh_mask = None
    /\ kernel = None
    /\ extended_img = None
    /\ fg_objects = None
    /\ annotations = None
    /\ saved = {}
    /\ job_status = "running"
    /\ trace = <<"threshold">>

NextPixel ==
    \/ StepMask
    \/ StepFilter
    \/ StepMorph
    \/ StepPad
    \/ StepExtract
    \/ StepRescale
    \/ StepSave
    \/ StepFinish

SpecPixel == InitPixel /\ [][NextPixel]_vars

\* ================================================================ properties
\* the mask of the raster as line 153 left it: the region filter's input
MaskOfRaster == [p \in DOMAIN img.px |-> IF img.px[p] < threshold THEN 255 ELSE 0]
Touch8(p, q) == p # q /\ Max(Abs(p[1] - q[1]), Abs(p[2] - q[2])) <= 1
\* S is a maximal 8-connected set of the pixels fg
IsComponent8(S, fg) ==
    /\ S # {}
    /\ S \subseteq fg
    /\ \A p \in S, q \in fg \ S : ~Touch8(p, q)
    /\ \A T \in SUBSET S :
          (T # {} /\ T # S) => \E p \in T, q \in S \ T : Touch8(p, q)
Components8(fg) == {S \in SUBSET fg : IsComponent8(S, fg)}

\* C4: the binary mask has the raster's dimensions, holds 255 exactly where
\* the raster is strictly below the threshold and 0 elsewhere (so 0 where a
\* pixel equals the threshold), holds no other value, and building it leaves
\* the raster as it was read.
C4_MaskIsStrictlyBelowThreshold ==
    pc = "filter" =>
        /\ thresh_mask.w = img.w /\ thresh_mask.h = img.h
        /\ DOMAIN thresh_mask.px = Coords(img.w, img.h)
        /\ \A p \in Coords(img.w, img.h) :
              /\ thresh_mask.px[p] \in {0, 255}
              /\ thresh_mask.px[p] = 255 <=> img.px[p] < threshold
              /\ img.px[p] = threshold => thresh_mask.px[p] = 0
        /\ img = Imread(images[idx])
C4_Witness ==
    /\ pc = "filter"
    /\ \E p, q \in DOMAIN img.px :
          /\ img.px[p] = threshold /\ thresh_mask.px[p] = 0
          /\ img.px[q] < threshold /\ thresh_mask.px[q] = 255

\* C7: the region size filter zeroes every 8-connected component of 255
\* pixels with fewer than min_region_size pixels, leaves every component with
\* at least min_region_size pixels as it was, and leaves 0 pixels at 0.
C7_FilterRemovesExactlySmallComponents ==
    pc = "morph" =>
        /\ DOMAIN thresh_mask.px = DOMAIN MaskOfRaster
        /\ \A S \in Components8({p \in DOMAIN MaskOfRaster : MaskOfRaster[p] = 255}) :
              IF Cardinality(S) < kernel.min_region_size
              THEN \A p \in S : thresh_mask.px[p] = 0
              ELSE \A p \in S : thresh_mask.px[p] = 255
        /\ \A p \in DOMAIN MaskOfRaster :
              MaskOfRaster[p] = 0 => thresh_mask.px[p] = 0
C7_Witness ==
    /\ pc = "morph"
    /\ \E S, T \in Components8({p \in DOMAIN MaskOfRaster : MaskOfRaster[p] = 255}) :
          /\ Cardinality(S) = kernel.min_region_size - 1
          /\ Cardinality(T) = kernel.min_region_size
          /\ \A p \in S : thresh_mask.px[p] = 0
          /\ \A p \in T : thresh_mask.px[p] = 255
    /\ \E p \in DOMAIN MaskOfRaster : MaskOfRaster[p] = 0

\* C9: the region size filter is idempotent: applied to its own output, with
\* the same min_region_size, it changes no pixel.
C9_FilterIdempotent ==
    pc = "morph" =>
        RegionSizeFilter(thresh_mask, kernel.min_region_size) = thresh_mask
C9_Witness ==
    /\ pc = "morph"
    /\ \E p, q \in DOMAIN MaskOfRaster :
          /\ MaskOfRaster[p] = 255 /\ thresh_mask.px[p] = 0
          /\ MaskOfRaster[q] = 255 /\ thresh_mask.px[q] = 255

\* the source image's width and height, and the working raster's width
W == images[idx].width
H == images[idx].height
RW == Resized(W, W, H, parameters.max_image_size)
\* floor((image_area_perc_threshold / 100) * width * height)
MinArea == (parameters.image_area_perc_threshold * W * H) \div 100
\* annotation a is polygon poly moved by (x, y) -> (zoom x, height - zoom y),
\* zoom = W / RW: a's coordinates are numerators over a.location.den
IsRescaled(a, poly) ==
    {<<v[1] * RW, v[2] * RW>> : v \in a.location.vertices} =
    {<<W * v[1] * a.location.den, (H * RW - W * v[2]) * a.location.den>> : v \in poly.vertices}

\* C1: a polygon is emitted as an annotation if and only if its area after
\* the rescale, zoom^2 times its area, is strictly greater than
\* min_area = floor((image_area_perc_threshold / 100) * width * height): one
\* whose rescaled area equals min_area is discarded, one at min_area + 1 is
\* kept, and every annotation's area is above min_area.
C1_EmittedIffAboveMinArea ==
    pc = "save" =>
        /\ \A poly \in fg_objects :
              (\E a \in annotations : IsRescaled(a, poly))
                  <=> poly.area * W * W > MinArea * RW * RW
        /\ \A a \in annotations :
              /\ a.location.area > MinArea * a.location.den * a.location.den
              /\ \E poly \in fg_objects :
                    /\ IsRescaled(a, poly)
                    /\ a.location.area * RW * RW = poly.area * W * W * a.location.den * a.location.den
C1_Witness ==
    /\ pc = "save"
    /\ \E p, q \in fg_objects :
          /\ p.area * W * W = MinArea * RW * RW
          /\ q.area * W * W = (MinArea + 1) * RW * RW
          /\ ~\E a \in annotations : IsRescaled(a, p)
          /\ \E a \in annotations : IsRescaled(a, q)

\* C6: the transform [zoom, 0, 0, -zoom, 0, height] sends every vertex (x, y)
\* to (zoom x, -zoom y + height); with zoom = 1 that is (x, height - y), and
\* the zoom = 1 transform applied twice gives (x, y) back.
C6_RescaleFlipsAndScales ==
    pc = "save" =>
        LET z == zoom_factor(images[idx])
            T(poly) == affine_transform(poly, transform_matrix(images[idx]), z[2])
        IN  /\ z[1] * RW = W * z[2]
            /\ \A a \in annotations : \E poly \in fg_objects : a.location = T(poly)
            /\ \A poly \in fg_objects :
                  /\ T(poly).den = z[2]
                  /\ T(poly).vertices =
                        {<<z[1] * v[1], H * z[2] - z[1] * v[2]>> : v \in poly.vertices}
                  /\ W = RW =>
                        /\ T(poly).vertices = {<<v[1], H - v[2]>> : v \in poly.vertices}
                        /\ T(T(poly)).vertices = poly.vertices
C6_Witness ==
    /\ pc = "save"
    /\ W = RW
    /\ \E a \in annotations, poly \in fg_objects :
          /\ IsRescaled(a, poly)
          /\ \E v \in poly.vertices : v[2] # H - v[2] /\ <<v[1], H - v[2]>> \in a.location.vertices

IsPrefix(s, t) == Len(s) <= Len(t) /\ \A i \in 1 .. Len(s) : s[i] = t[i]
PipelineOrder ==
    <<"threshold", "mask", "filter", "morph", "pad", "extract", "rescale">>

\* C8: for every image the stages run once each, in the order threshold
\* estimation, mask building, region size filtering, morphological
\* refinement, border padding, polygon extraction, rescale and area filter;
\* none is repeated, and the region size filter runs before the morphological
\* operation.
C8_StagesRunOnceInOrder ==
    /\ IsPrefix(trace, PipelineOrder \o <<"save">>)
    /\ \A i, j \in 1 .. Len(trace) :
          (trace[i] = "filter" /\ trace[j] = "morph") => i < j
    /\ pc = "save" => trace = PipelineOrder
    /\ (pc = "next" /\ idx >= 1) => trace = PipelineOrder \o <<"save">>
    /\ Cardinality({s[1] : s \in saved}) = Cardinality(saved)
C8_Witness ==
    /\ pc = "next"
    /\ idx = 2
    /\ trace = PipelineOrder \o <<"save">>
    /\ {s[1] : s \in saved} = {1, 2}

C2_FailureAbortsOneImageOnly ==
    pc \in {"aborted", "done"} =>
        \A i, j \in 1 .. Len(images) :
            (i < j /\ ResizeFails(Imread(images[i])) /\ ~ResizeFails(Imread(images[j]))) =>
                /\ j \in {s[1] : s \in saved}
                /\ job_status = "finished"

\* C3: threshold estimation completes for every raster with at least one row
\* and one column, and gives otsu(samples) + offset: for a raster holding the
\* single value v, v + offset.
C3_ThresholdEstimationCompletes ==
    /\ (idx >= 1 /\ img.w >= 1 /\ img.h >= 1) => pc # "aborted"
    /\ pc = "mask" => threshold = img.fill + parameters.threshold_blocksize

\* C10: every vertex of every emitted polygon lies inside the source image:
\* 0 <= x <= width and 0 <= y <= height.
C10_VerticesInsideImage ==
    \A s \in saved : \A a \in s[2] : \A v \in a.location.vertices :
        /\ 0 <= v[1] /\ v[1] <= images[s[1]].width * a.location.den
        /\ 0 <= v[2] /\ v[2] <= images[s[1]].height * a.location.den
====
